---- MODULE Spec2Model ----
(***************************************************************************)
(* Batch workspace of dsail-annotate: the useBatchProcessing hook          *)
(* (src/src/hooks/useBatchProcessing.ts) driven by the handlers of         *)
(* BatchAnnotationPlatform (src/src/components/BatchAnnotationPlatform.tsx)*)
(*                                                                         *)
(* React state is modelled as committed at the end of every synchronous    *)
(* segment of a handler (automatic batching).  A handler reads the values  *)
(* its closure captured at the render it was created in: an async handler  *)
(* that resumes after an await still sees the values of that older render. *)
(* processBatch is memoised with useCallback on [isProcessing], so its     *)
(* closure is replaced only by a render in which isProcessing changed;     *)
(* the shouldCancel value it reads is the one of that render (memoCancel). *)
(*                                                                         *)
(* Annotation canvas: the pointer handlers of ImageCanvas in its two       *)
(* versions (src/src/components/ImageCanvas.tsx, with resize handles, and  *)
(* src/src/components/AnnotationPlatform.tsx lines 665-980, with pan mode),*)
(* the AnnotationSidebar handlers and the annotation list and selection    *)
(* that AnnotationPlatform keeps for them.  Spec is the batch workspace,   *)
(* CanvasSpec the canvas; each leaves the other's variables untouched.     *)
(*                                                                         *)
(* ResizeSpec applies the resize branch of handleMouseMove to boxes and    *)
(* pointer positions of any size, EditSpec is the label editor of          *)
(* AnnotationSidebar (src/src/components/AnnotationSidebar.tsx), ViewSpec  *)
(* the view transform of the canvas (fit, zoom, pan) with the scale as an  *)
(* exact fraction, and RoundTripSpec the mapping between image and display *)
(* space in rounded arithmetic.                                            *)
(***************************************************************************)
EXTENDS Integers, Sequences, FiniteSets, TLC

\* ---------------------------------------------------------------- bounds
MaxImages == 2      \* image ids ever created by uploads (crypto.randomUUID)
MaxStarts == 3      \* detect-batch calls issued in one behaviour
MaxHandlers == 1    \* handleBatchProcess invocations awaiting the health check

\* file names of the uploaded files; two files may carry the same name
Names == {"a.jpg", "b.jpg"}
\* the file lists an upload hands over; names matter only through equality,
\* so the first file is always a.jpg
FileLists ==
    {files \in UNION {[1..n -> Names] : n \in 1..MaxImages} : files[1] = "a.jpg"}
\* the addends Math.random() * 15 can contribute to a progress tick
TickDeltas == {7}
\* one entry of the detect-batch response: annotations supplied, the
\* annotations field absent, or an error entry
EntryKinds == {"ok", "none", "error"}
\* the list a manual edit (canvas or sidebar) hands to handleAnnotationUpdate;
\* 0 stands for a manually drawn annotation
ManualLists == {<<0>>}

VARIABLES
    images,          \* state.images: the ordered ImageData records
    batchProgress,   \* state.batchProgress
    selectedModel,   \* state.selectedModel # null
    isProcessing,    \* hook state isProcessing
    shouldCancel,    \* hook state shouldCancel
    memoCancel,      \* shouldCancel as captured by the memoised processBatch
    handlers,        \* handleBatchProcess invocations awaiting /api/models
    runs,            \* processBatchParallel invocations awaiting /api/detect-batch
    nextId,          \* next fresh image id
    started,         \* detect-batch calls issued so far
    lastToast,       \* the toast the hook surfaced in the last step (none: no toast)
    lastResponse     \* the detect-batch outcome applied in the last step, if any

VARIABLES
    panModeCanvas,         \* the mounted ImageCanvas is the pan-mode version
    annotations,           \* the current image's Annotation records, in stored order
    selectedAnnotationId,  \* state.selectedAnnotationId
    tool,                  \* state.tool
    isDragging,            \* canvas state isDragging
    dragStart,             \* canvas state dragStart
    newBbox,               \* canvas state newBbox (NullBox: null)
    isPanning,             \* canvas state isPanning
    isPanMode,             \* canvas state isPanMode (pan-mode version)
    isResizing,            \* canvas state isResizing (ImageCanvas.tsx)
    resizeHandle,          \* canvas state resizeHandle (Null: null)
    resizeStart,           \* canvas state resizeStart
    originalBbox,          \* canvas state originalBbox (NullBox: null)
    created,               \* manual annotations created so far (ids come from Date.now())
    lastEvent,             \* the pointer event or deletion handled in the last step
    events                 \* events handled so far

VARIABLES
    editingId,             \* sidebar state editingId (Null: null)
    editLabel,             \* sidebar state editLabel, as its sequence of characters
    imageElement,          \* canvas state imageElement: the loaded image's size (NoImage: null)
    scale,                 \* canvas state scale, an exact fraction num / den
    offset,                \* canvas state offset
    panStart               \* canvas state panStart

batchVars == <<images, batchProgress, selectedModel, isProcessing,
               shouldCancel, memoCancel, handlers, runs, nextId, started,
               lastToast, lastResponse>>

gestureVars == <<isDragging, dragStart, newBbox, isPanning, isResizing,
                 resizeHandle, resizeStart, originalBbox>>

sidebarVars == <<editingId, editLabel>>

viewVars == <<imageElement, scale, offset, panStart>>

canvasVars == <<panModeCanvas, annotations, selectedAnnotationId, tool,
                isPanMode, gestureVars, created, lastEvent, events,
                sidebarVars, viewVars>>

vars == <<batchVars, canvasVars>>

\* ------------------------------------------------------------- helpers
RECURSIVE FilterSeq(_, _)
\* Array.prototype.filter on statuses
FilterSeq(s, st) ==
    IF s = <<>> THEN <<>>
    ELSE IF Head(s).status = st THEN <<Head(s)>> \o FilterSeq(Tail(s), st)
         ELSE FilterSeq(Tail(s), st)

RECURSIVE FilterSelected(_, _)
\* state.images.filter(img => img.selected), selected being the ids whose
\* selected flag is set
FilterSelected(s, selected) ==
    IF s = <<>> THEN <<>>
    ELSE IF Head(s).id \in selected
         THEN <<Head(s)>> \o FilterSelected(Tail(s), selected)
         ELSE FilterSelected(Tail(s), selected)

CountStatus(imgs, st) == Cardinality({i \in 1..Len(imgs) : imgs[i].status = st})

\* ((completed + failed) / total) * 100 kept exact as <<numerator, denominator>>
Percentage(completed, failed, total) ==
    IF total > 0 THEN <<(completed + failed) * 100, total>> ELSE <<0, 1>>

calculateProgress(imgs) ==
    LET total == Len(imgs)
        completed == CountStatus(imgs, "completed")
        failed == CountStatus(imgs, "failed")
        processing == CountStatus(imgs, "processing")
    IN [total |-> total, completed |-> completed, failed |-> failed,
        processing |-> processing,
        percentage |-> Percentage(completed, failed, total)]

ZeroProgress ==
    [total |-> 0, completed |-> 0, failed |-> 0, processing |-> 0,
     percentage |-> <<0, 1>>]

\* { ...img, ...updates }
Merge(img, updates) ==
    [f \in DOMAIN img |-> IF f \in DOMAIN updates THEN updates[f] ELSE img[f]]

\* updateImage that leaves the stored progress as it was
updateImage_StaleProgress(st, id, updates) ==
    [images |-> [i \in 1..Len(st.images) |->
                    IF st.images[i].id = id THEN Merge(st.images[i], updates)
                    ELSE st.images[i]],
     batchProgress |-> st.batchProgress]

\* updateImage(id, updates) on the workspace state st = [images, batchProgress]
updateImage(st, id, updates) ==
    LET newImages == [i \in 1..Len(st.images) |->
                        IF st.images[i].id = id THEN Merge(st.images[i], updates)
                        ELSE st.images[i]]
    IN [images |-> newImages, batchProgress |-> calculateProgress(newImages)]

RECURSIVE UpdateEach(_, _, _)
\* imgs.forEach(img => updateImage(img.id, updates))
UpdateEach(st, imgs, updates) ==
    IF imgs = <<>> THEN st
    ELSE UpdateEach(updateImage(st, Head(imgs).id, updates), Tail(imgs), updates)

\* toast.error / toast.info / toast.success of the hook, by message
Toast(kind) == kind

\* what a render leaves in the memoised processBatch after isProcessing and
\* shouldCancel are committed as ip and sc: the closure is renewed only
\* when isProcessing differs from the previous render
NoResponse == [images |-> <<>>, ok |-> FALSE, kinds |-> <<>>, settled |-> FALSE]

\* the step surfaces toast t and applies no detect-batch outcome
Surface(t) == lastToast' = t /\ lastResponse' = NoResponse

NoToast == Surface(Toast("none"))

Recapture(prevIp, prevMemo, ip, sc) == IF ip # prevIp THEN sc ELSE prevMemo

\* null
Null == "null"

\* null where a bbox object is expected
NullBox == [null |-> TRUE]

\* the event of a step that handled neither a pointer event nor a deletion
NoEvent == [kind |-> "none"]

\* a freshly mounted canvas in a freshly constructed AnnotationPlatform
\* imageElement before the image has loaded (null)
NoImage == [null |-> TRUE]

\* AnnotationSidebar on mount
SidebarMounted ==
    /\ editingId = Null
    /\ editLabel = <<>>

\* the view state of ImageCanvas on mount, before the image has loaded
ViewMounted ==
    /\ imageElement = NoImage
    /\ scale = [num |-> 1, den |-> 1]
    /\ offset = [x |-> 0, y |-> 0]
    /\ panStart = [x |-> 0, y |-> 0]

CanvasMounted(panMode) ==
    /\ SidebarMounted
    /\ ViewMounted
    /\ panModeCanvas = panMode
    /\ annotations = <<>>
    /\ selectedAnnotationId = Null
    /\ tool = "select"
    /\ isDragging = FALSE
    /\ dragStart = [x |-> 0, y |-> 0]
    /\ newBbox = NullBox
    /\ isPanning = FALSE
    /\ isPanMode = FALSE
    /\ isResizing = FALSE
    /\ resizeHandle = Null
    /\ resizeStart = [x |-> 0, y |-> 0]
    /\ originalBbox = NullBox
    /\ created = 0
    /\ lastEvent = NoEvent
    /\ events = 0

WorkspaceInit ==
    /\ images = <<>>
    /\ batchProgress = ZeroProgress
    /\ selectedModel = FALSE
    /\ isProcessing = FALSE
    /\ shouldCancel = FALSE
    /\ memoCancel = FALSE
    /\ handlers = <<>>
    /\ runs = <<>>
    /\ nextId = 1
    /\ started = 0
    /\ lastToast = Toast("none")
    /\ lastResponse = NoResponse

Init == WorkspaceInit /\ CanvasMounted(FALSE)

hookVars == <<isProcessing, shouldCancel, memoCancel, handlers, runs, started>>

\* ------------------------------------------------- workspace handlers
RECURSIVE NewImages(_, _)
NewImages(files, id) ==
    IF files = <<>> THEN <<>>
    ELSE <<[id |-> id, name |-> Head(files), status |-> "pending", progress |-> 0,
            annotations |-> <<>>]>>
         \o NewImages(Tail(files), id + 1)

\* handleImagesUpload(files); the uploader is rendered only while no image
\* is loaded
handleImagesUpload(files) ==
    /\ Len(images) = 0
    /\ nextId + Len(files) - 1 <= MaxImages
    /\ LET allImages == images \o NewImages(files, nextId)
       IN /\ images' = allImages
          /\ batchProgress' = calculateProgress(allImages)
    /\ nextId' = nextId + Len(files)
    /\ NoToast /\ UNCHANGED <<selectedModel, hookVars>>

handleRemoveAllImages ==
    /\ Len(images) > 0
    /\ images' = <<>>
    /\ batchProgress' = ZeroProgress
    /\ selectedModel' = FALSE
    /\ NoToast /\ UNCHANGED <<hookVars, nextId>>

\* handleAnnotationUpdate(annotations) on the image shown on the canvas;
\* handleImageSelect makes any loaded image the current one at any time, so
\* the edit is offered for every loaded image
handleAnnotationUpdate(currentImageId, newAnnotations) ==
    /\ currentImageId \in {images[i].id : i \in 1..Len(images)}
    /\ LET st == updateImage([images |-> images, batchProgress |-> batchProgress],
                             currentImageId, [annotations |-> newAnnotations])
       IN /\ images' = st.images
          /\ batchProgress' = st.batchProgress
    /\ NoToast /\ UNCHANGED <<selectedModel, hookVars, nextId>>

\* ------------------------------------------------------ the batch hook
Min(a, b) == IF a < b THEN a ELSE b

RECURSIVE Snapshot(_)
\* what a run reads of the ImageData objects it was handed: the objects are
\* never mutated, so id, name and progress stay as they were at the call
Snapshot(imgs) ==
    IF imgs = <<>> THEN <<>>
    ELSE <<[id |-> Head(imgs).id, name |-> Head(imgs).name,
            progress |-> Head(imgs).progress]>> \o Snapshot(Tail(imgs))

\* marking only the first image, as a run dispatching in groups of one would
MarkProcessing_FirstGroup(st, pendingImages) ==
    UpdateEach(st, SubSeq(pendingImages, 1, 1),
               [status |-> "processing", progress |-> 10])

\* lines 28-31: images.forEach(img => updateImage(img.id, {processing, 10}))
MarkProcessing(st, pendingImages) ==
    UpdateEach(st, pendingImages, [status |-> "processing", progress |-> 10])

\* lines 87-93: images.forEach(img => updateImage(img.id, {failed, 0}))
MarkAllFailed(st, runImages) ==
    UpdateEach(st, runImages, [status |-> "failed", progress |-> 0])

\* the closure left after the finally block of processBatch (lines 127-131):
\* setIsProcessing(false) and setShouldCancel(false) commit in one render
AfterFinally(prevIp, prevMemo) == Recapture(prevIp, prevMemo, FALSE, FALSE)

\* what processBatch reads of the array it is handed, whenever it is called:
\* the images that were pending when the array was built (line 112)
Handed(imgs) == Snapshot(FilterSeq(imgs, "pending"))

\* processBatch(images, model, updateImage) as called through a closure that
\* captured isProcessing = cIp and shouldCancel = cSc, on the workspace state
\* st, up to its first suspension; arg = Handed(images).  flush: whether
\* React renders between setIsProcessing(true) and the finally block when
\* processBatchParallel returns at once (line 25).
processBatch(st, arg, cIp, cSc, flush) ==
    IF cIp
    THEN \* lines 104-107
         /\ Surface(Toast("already"))
         /\ images' = st.images
         /\ batchProgress' = st.batchProgress
         /\ UNCHANGED <<isProcessing, shouldCancel, memoCancel, runs, started>>
    ELSE LET pendingImages == arg IN
         IF cSc
         THEN \* line 25 returns, line 118 skips the summary, finally runs
              /\ Surface(Toast("starting"))
              /\ images' = st.images
              /\ batchProgress' = st.batchProgress
              /\ isProcessing' = FALSE
              /\ shouldCancel' = FALSE
              /\ memoCancel' =
                    IF flush
                    THEN AfterFinally(TRUE, Recapture(isProcessing, memoCancel,
                                                      TRUE, shouldCancel))
                    ELSE AfterFinally(isProcessing, memoCancel)
              /\ UNCHANGED <<runs, started>>
         ELSE LET st2 == MarkProcessing(st, pendingImages) IN
              /\ Surface(Toast("starting"))
              /\ images' = st2.images
              /\ batchProgress' = st2.batchProgress
              /\ isProcessing' = TRUE
              /\ UNCHANGED shouldCancel
              /\ memoCancel' = Recapture(isProcessing, memoCancel, TRUE, shouldCancel)
              /\ started' = started + 1
              /\ runs' = Append(runs,
                    [images |-> pendingImages])

\* a new detect-batch call fits the bound on outstanding calls
RoomFor(cIp, cSc) == cIp \/ cSc \/ started < MaxStarts

\* handleBatchProcess(model) up to its await of the /api/models health check.
\* The selected flags are written by handleImageToggleSelection and
\* handleToggleAllSelection alone, which can set any combination at any time
\* and write nothing else: the flags are the parameter selected
handleBatchProcess(selected) ==
    LET selectedImages == FilterSelected(images, selected) IN
    IF Len(selectedImages) = 0
    THEN NoToast /\ UNCHANGED <<images, batchProgress, selectedModel, hookVars, nextId>>
    ELSE /\ Len(handlers) < MaxHandlers
         /\ handlers' = Append(handlers,
                [arg |-> Handed(selectedImages),
                 cIp |-> isProcessing,
                 cSc |-> memoCancel])
         /\ NoToast /\ UNCHANGED <<images, batchProgress, selectedModel,
                        isProcessing, shouldCancel, memoCancel, runs, nextId,
                        started>>

RemoveAt(s, k) == [i \in 1..(Len(s) - 1) |-> IF i < k THEN s[i] ELSE s[i + 1]]

\* the health check fails or answers non-ok (lines 110-118)
healthCheckFails(k) ==
    /\ k \in 1..Len(handlers)
    /\ handlers' = RemoveAt(handlers, k)
    /\ NoToast /\ UNCHANGED <<images, batchProgress, selectedModel,
                   isProcessing, shouldCancel, memoCancel, runs, nextId, started>>

\* the health check answers ok: lines 120-122
healthCheckOk(k, flush) ==
    /\ k \in 1..Len(handlers)
    /\ RoomFor(handlers[k].cIp, handlers[k].cSc)
    /\ handlers' = RemoveAt(handlers, k)
    /\ selectedModel' = TRUE
    /\ processBatch([images |-> images, batchProgress |-> batchProgress],
                    handlers[k].arg, handlers[k].cIp, handlers[k].cSc, flush)
    /\ UNCHANGED nextId

\* a retryFailed without the early return of lines 141-144
retryFailed_NoEarlyReturn(imgs, flush) ==
    LET failedImages == FilterSeq(imgs, "failed") IN
    processBatch(UpdateEach([images |-> images, batchProgress |-> batchProgress],
                            failedImages, [status |-> "pending", progress |-> 0]),
                 Handed(imgs), isProcessing, memoCancel, flush)

\* retryFailed(images, model, updateImage), lines 134-153, through the
\* closure of the current render
retryFailed(imgs, flush) ==
    LET failedImages == FilterSeq(imgs, "failed") IN
    IF Len(failedImages) = 0
    THEN /\ Surface(Toast("noFailed"))
         /\ UNCHANGED <<images, batchProgress, isProcessing, shouldCancel,
                        memoCancel, runs, started>>
    ELSE processBatch(UpdateEach([images |-> images, batchProgress |-> batchProgress],
                                 failedImages, [status |-> "pending", progress |-> 0]),
                      Handed(imgs), isProcessing, memoCancel, flush)

\* handleRetryFailed, lines 126-135
handleRetryFailed(flush) ==
    IF ~selectedModel
    THEN NoToast /\ UNCHANGED <<images, batchProgress, selectedModel, hookVars, nextId>>
    ELSE /\ RoomFor(isProcessing, memoCancel)
         /\ retryFailed(images, flush)
         /\ UNCHANGED <<selectedModel, handlers, nextId>>

\* a cancel that sets the flag but leaves isProcessing for the run to clear
cancelProcessing_KeepsFlag ==
    /\ shouldCancel' = TRUE
    /\ UNCHANGED <<isProcessing, memoCancel>>
    /\ Surface(Toast("cancelling"))
    /\ UNCHANGED <<images, batchProgress, selectedModel, handlers,
                   runs, nextId, started>>

\* cancelProcessing, lines 155-159
cancelProcessing ==
    /\ shouldCancel' = TRUE
    /\ isProcessing' = FALSE
    /\ memoCancel' = Recapture(isProcessing, memoCancel, FALSE, TRUE)
    /\ Surface(Toast("cancelling"))
    /\ UNCHANGED <<images, batchProgress, selectedModel, handlers,
                   runs, nextId, started>>

RECURSIVE TickEach(_, _, _)
\* lines 43-47: updateImage(img.id, {progress: min(img.progress + random*15, 85)})
TickEach(st, runImages, deltas) ==
    IF runImages = <<>> THEN st
    ELSE TickEach(updateImage(st, Head(runImages).id,
                     [progress |-> Min(Head(runImages).progress + Head(deltas), 85)]),
                  Tail(runImages), Tail(deltas))

\* one firing of the progress interval of run r (lines 42-48)
progressTick(r, deltas) ==
    /\ r \in 1..Len(runs)
    /\ Len(runs[r].images) > 0
    /\ LET st == TickEach([images |-> images, batchProgress |-> batchProgress],
                          runs[r].images, deltas)
       IN /\ images' = st.images
          /\ batchProgress' = st.batchProgress
    /\ NoToast /\ UNCHANGED <<selectedModel, hookVars, nextId>>

\* images.find(img => img.name === name): index of the first match, 0 if none
FindByName(runImages, name) ==
    IF \E i \in 1..Len(runImages) : runImages[i].name = name
    THEN CHOOSE i \in 1..Len(runImages) :
            /\ runImages[i].name = name
            /\ \A j \in 1..(i - 1) : runImages[j].name # name
    ELSE 0

\* the detect-batch response to the files image_0 .. image_{n-1}: entry i
\* answers file i under that file's name; detections of image id are <<id>>
Results(runImages, kinds) ==
    [i \in 1..Len(runImages) |->
        [image_name |-> runImages[i].name,
         error |-> kinds[i] = "error",
         supplied |-> kinds[i] = "ok",
         annotations |-> <<runImages[i].id>>]]

\* lines 69-83: one entry of result.results
ApplyEntry(st, runImages, imageResult) ==
    LET k == FindByName(runImages, imageResult.image_name) IN
    IF k = 0 THEN st
    ELSE IF imageResult.error
         THEN updateImage(st, runImages[k].id, [status |-> "failed", progress |-> 0])
         ELSE updateImage(st, runImages[k].id,
                 [status |-> "completed", progress |-> 100,
                  annotations |-> IF imageResult.supplied
                                  THEN imageResult.annotations ELSE <<>>])

RECURSIVE ApplyResults(_, _, _)
\* lines 68-84: result.results.forEach
ApplyResults(st, runImages, results) ==
    IF results = <<>> THEN st
    ELSE ApplyResults(ApplyEntry(st, runImages, Head(results)), runImages,
                      Tail(results))

\* the finally block of processBatch, lines 127-131
Finally(r) ==
    /\ runs' = RemoveAt(runs, r)
    /\ isProcessing' = FALSE
    /\ shouldCancel' = FALSE
    /\ memoCancel' = AfterFinally(isProcessing, memoCancel)

\* lines 86-96 and 124-126: the catch blocks
CatchError(r) ==
    /\ LET st == MarkAllFailed([images |-> images, batchProgress |-> batchProgress],
                               runs[r].images)
       IN /\ images' = st.images
          /\ batchProgress' = st.batchProgress
    /\ lastToast' = Toast("error")
    /\ lastResponse' = [images |-> runs[r].images, ok |-> FALSE, kinds |-> <<>>,
                        settled |-> TRUE]
    /\ Finally(r)

\* fetch("/api/detect-batch") rejects (network error): lines 50, 86-96,
\* then lines 124-131 of processBatch
fetchRejects(r) ==
    /\ r \in 1..Len(runs)
    /\ CatchError(r)
    /\ UNCHANGED <<selectedModel, handlers, nextId, started>>

\* fetch resolves and the body is read: clearInterval (line 55), lines 57-84,
\* then lines 118-131 of processBatch.  ok is response.ok; kinds are the
\* entries of result.results
fetchResolves(r, ok, kinds) ==
    /\ r \in 1..Len(runs)
    /\ IF ~ok
       THEN CatchError(r)
       ELSE /\ LET st == ApplyResults([images |-> images,
                                       batchProgress |-> batchProgress],
                                      runs[r].images,
                                      Results(runs[r].images, kinds))
               IN /\ images' = st.images
                  /\ batchProgress' = st.batchProgress
            /\ lastToast' = Toast("complete")
            /\ lastResponse' = [images |-> runs[r].images, ok |-> TRUE,
                                kinds |-> kinds, settled |-> TRUE]
            /\ Finally(r)
    /\ UNCHANGED <<selectedModel, handlers, nextId, started>>

\* ------------------------------------------------ the annotation canvas
MaxCreated == 2     \* manual annotations drawn in one behaviour
MaxEvents == 6      \* canvas, toolbar and sidebar events handled in one behaviour

\* minimum side of a bounding box, in image pixels
MinSize == 10
\* side of a resize handle at scale 1 (8 / scale)
HandleSize == 8

\* image-space positions getCanvasCoordinates reports (scale 1, offset 0)
Points ==
    {[x |-> 0, y |-> 0], [x |-> 10, y |-> 10], [x |-> 21, y |-> 21],
     [x |-> 21, y |-> 10], [x |-> 10, y |-> 21], [x |-> 0, y |-> 10]}
\* event.button: 0 left, 1 middle
Buttons == {0, 1}
Tools == {"select", "bbox", "edit"}

Box(x, y, w, h) == [x |-> x, y |-> y, width |-> w, height |-> h]

Abs(n) == IF n < 0 THEN 0 - n ELSE n

\* an annotation as the detector returns it; confidence in hundredths
AiAnnotation(id, label, confidence, bbox) ==
    [id |-> id, label |-> label, confidence |-> confidence, bbox |-> bbox,
     source |-> "ai", verified |-> FALSE]

\* the annotation lists a detection hands to the store
DetectorResults ==
    {<<AiAnnotation("ai-1", "person", 95, Box(0, 10, 21, 11)),
       AiAnnotation("ai-2", "car", 87, Box(10, 0, 11, 21))>>}

\* `manual-${Date.now()}`: the n-th id handed out
ManualId(n) == "manual-" \o ToString(n)

\* the least of a set of indices, 0 if there is none: the element that
\* Array.prototype.find and a for..of loop with return reach first
FirstIndex(hits) ==
    IF hits = {} THEN 0 ELSE CHOOSE i \in hits : \A j \in hits : i <= j

\* the bbox test of handleCanvasClick
Contains(bbox, coords) ==
    /\ coords.x >= bbox.x
    /\ coords.x <= bbox.x + bbox.width
    /\ coords.y >= bbox.y
    /\ coords.y <= bbox.y + bbox.height

\* a hit test that returns the last annotation under the pointer
ClickedId_Topmost(anns, coords) ==
    LET hits == {i \in 1..Len(anns) : Contains(anns[i].bbox, coords)}
    IN IF hits = {} THEN Null
       ELSE anns[CHOOSE i \in hits : \A j \in hits : j <= i].id

\* annotations.find(...), then clickedAnnotation?.id || null
ClickedId(anns, coords) ==
    LET i == FirstIndex({k \in 1..Len(anns) : Contains(anns[k].bbox, coords)})
    IN IF i = 0 THEN Null ELSE anns[i].id

\* the handles of getResizeHandle, in the order it tests them
HandleOrder == <<"nw", "ne", "sw", "se", "n", "s", "w", "e">>

\* twice the x and y of a handle's centre
HandleX2(pos, bbox) ==
    IF pos \in {"nw", "sw", "w"} THEN 2 * bbox.x
    ELSE IF pos \in {"ne", "se", "e"} THEN 2 * bbox.x + 2 * bbox.width
    ELSE 2 * bbox.x + bbox.width

HandleY2(pos, bbox) ==
    IF pos \in {"nw", "ne", "n"} THEN 2 * bbox.y
    ELSE IF pos \in {"sw", "se", "s"} THEN 2 * bbox.y + 2 * bbox.height
    ELSE 2 * bbox.y + bbox.height

\* getResizeHandle(coords, annotation): the first handle whose square holds coords
getResizeHandle(coords, bbox) ==
    LET On(pos) ==
            /\ 2 * coords.x >= HandleX2(pos, bbox) - HandleSize
            /\ 2 * coords.x <= HandleX2(pos, bbox) + HandleSize
            /\ 2 * coords.y >= HandleY2(pos, bbox) - HandleSize
            /\ 2 * coords.y <= HandleY2(pos, bbox) + HandleSize
        i == FirstIndex({k \in 1..Len(HandleOrder) : On(HandleOrder[k])})
    IN IF i = 0 THEN Null ELSE HandleOrder[i]

\* resizeHandle.includes(letter)
Includes(handle, letter) ==
    IF letter = "w" THEN handle \in {"nw", "sw", "w"}
    ELSE IF letter = "n" THEN handle \in {"nw", "ne", "n"}
    ELSE IF letter = "e" THEN handle \in {"ne", "se", "e"}
    ELSE handle \in {"sw", "se", "s"}

\* the switch of handleMouseMove, lines 327-362
Dragged(orig, handle, deltaX, deltaY) ==
    [x |-> IF Includes(handle, "w") THEN orig.x + deltaX ELSE orig.x,
     y |-> IF Includes(handle, "n") THEN orig.y + deltaY ELSE orig.y,
     width |-> IF Includes(handle, "w") THEN orig.width - deltaX
               ELSE IF Includes(handle, "e") THEN orig.width + deltaX
               ELSE orig.width,
     height |-> IF Includes(handle, "n") THEN orig.height - deltaY
                ELSE IF Includes(handle, "s") THEN orig.height + deltaY
                ELSE orig.height]

\* a resize without the minimum-size clamp
EnsureMinimum_Skipped(b, orig, handle) == b

\* a minimum-size clamp that pins the near edge instead of the far one
EnsureMinimum_NearEdge(b, orig, handle) ==
    [x |-> b.x,
     y |-> b.y,
     width |-> IF b.width < MinSize THEN MinSize ELSE b.width,
     height |-> IF b.height < MinSize THEN MinSize ELSE b.height]

\* "Ensure minimum size", lines 364-372
EnsureMinimum(b, orig, handle) ==
    [x |-> IF b.width < MinSize /\ Includes(handle, "w")
           THEN orig.x + orig.width - MinSize ELSE b.x,
     y |-> IF b.height < MinSize /\ Includes(handle, "n")
           THEN orig.y + orig.height - MinSize ELSE b.y,
     width |-> IF b.width < MinSize THEN MinSize ELSE b.width,
     height |-> IF b.height < MinSize THEN MinSize ELSE b.height]

\* the bbox the resize branch stores for a pointer at coords
Resized(orig, handle, start, coords) ==
    EnsureMinimum(Dragged(orig, handle, coords.x - start.x, coords.y - start.y),
                  orig, handle)

\* annotations.map(ann => ann.id === id ? { ...ann, bbox } : ann)
WithBbox(anns, id, bbox) ==
    [i \in 1..Len(anns) |->
        IF anns[i].id = id THEN [anns[i] EXCEPT !.bbox = bbox] ELSE anns[i]]

\* annotation.visible !== false
IsVisible(ann) == ~("visible" \in DOMAIN ann /\ ann.visible = FALSE)

\* { ...a, visible: v }
WithVisible(ann, v) ==
    [f \in DOMAIN ann \cup {"visible"} |-> IF f = "visible" THEN v ELSE ann[f]]

\* the candidate box of handleMouseMove, lines 311-319
Candidate(start, coords) ==
    Box(IF coords.x - start.x < 0 THEN coords.x ELSE start.x,
        IF coords.y - start.y < 0 THEN coords.y ELSE start.y,
        Abs(coords.x - start.x), Abs(coords.y - start.y))

\* the Annotation object handleMouseUp builds, in either version of the canvas
NewAnnotation(bbox) ==
    IF panModeCanvas
    THEN [id |-> ManualId(created + 1), label |-> "object", confidence |-> 100,
          bbox |-> bbox, source |-> "manual", visible |-> TRUE]
    ELSE [id |-> ManualId(created + 1), label |-> "object", confidence |-> 100,
          bbox |-> bbox, source |-> "manual", verified |-> TRUE]

Event(kind) == [kind |-> kind]

hostVars == <<panModeCanvas, annotations, selectedAnnotationId, tool, created>>

\* handleMouseDown
handleMouseDown(coords, button) ==
    /\ lastEvent' = Event("mousedown")
    /\ IF tool = "bbox"
       THEN /\ created < MaxCreated
            /\ dragStart' = coords
            /\ isDragging' = TRUE
            /\ newBbox' = Box(coords.x, coords.y, 0, 0)
            /\ UNCHANGED <<isPanning, isResizing, resizeHandle, resizeStart,
                           originalBbox>>
       ELSE IF tool = "select" /\ panModeCanvas
       THEN IF button = 1 \/ (isPanMode /\ button = 0)
            THEN /\ isPanning' = TRUE
                 /\ UNCHANGED <<isDragging, dragStart, newBbox, isResizing,
                                resizeHandle, resizeStart, originalBbox>>
            ELSE UNCHANGED gestureVars
       ELSE IF tool = "select"
       THEN LET i == FirstIndex({k \in 1..Len(annotations) :
                                    annotations[k].id = selectedAnnotationId})
                handle == IF i = 0 THEN Null
                          ELSE getResizeHandle(coords, annotations[i].bbox)
            IN IF handle # Null
               THEN /\ isResizing' = TRUE
                    /\ resizeHandle' = handle
                    /\ resizeStart' = coords
                    /\ originalBbox' = annotations[i].bbox
                    /\ UNCHANGED <<isDragging, dragStart, newBbox, isPanning>>
               ELSE IF button = 1
               THEN /\ isPanning' = TRUE
                    /\ UNCHANGED <<isDragging, dragStart, newBbox, isResizing,
                                   resizeHandle, resizeStart, originalBbox>>
               ELSE UNCHANGED gestureVars
       ELSE UNCHANGED gestureVars
    /\ UNCHANGED <<hostVars, isPanMode>>

\* handleMouseMove; the pan branch moves the view offset only
handleMouseMove(coords) ==
    /\ lastEvent' = Event("mousemove")
    /\ IF isDragging /\ tool = "bbox"
       THEN /\ newBbox' = Candidate(dragStart, coords)
            /\ UNCHANGED annotations
       ELSE IF ~panModeCanvas /\ isResizing /\ originalBbox # NullBox
                /\ resizeHandle # Null
       THEN /\ annotations' =
                 WithBbox(annotations, selectedAnnotationId,
                          Resized(originalBbox, resizeHandle, resizeStart, coords))
            /\ UNCHANGED newBbox
       ELSE UNCHANGED <<annotations, newBbox>>
    /\ UNCHANGED <<panModeCanvas, selectedAnnotationId, tool, created, isPanMode,
                   isDragging, dragStart, isPanning, isResizing, resizeHandle,
                   resizeStart, originalBbox>>

\* a release that also stores a candidate whose sides are exactly the minimum
handleMouseUp_Inclusive ==
    /\ IF /\ isDragging /\ newBbox # NullBox /\ tool = "bbox"
          /\ newBbox.width >= MinSize /\ newBbox.height >= MinSize
       THEN /\ annotations' = Append(annotations, NewAnnotation(newBbox))
            /\ selectedAnnotationId' = NewAnnotation(newBbox).id
            /\ created' = created + 1
       ELSE UNCHANGED <<annotations, selectedAnnotationId, created>>
    /\ isDragging' = FALSE
    /\ newBbox' = NullBox
    /\ isPanning' = FALSE
    /\ isResizing' = FALSE
    /\ resizeHandle' = Null
    /\ originalBbox' = NullBox
    /\ UNCHANGED <<panModeCanvas, tool, isPanMode, dragStart, resizeStart>>

\* handleMouseUp
handleMouseUp ==
    /\ IF /\ isDragging /\ newBbox # NullBox /\ tool = "bbox"
          /\ newBbox.width > MinSize /\ newBbox.height > MinSize
       THEN /\ annotations' = Append(annotations, NewAnnotation(newBbox))
            /\ selectedAnnotationId' = NewAnnotation(newBbox).id
            /\ created' = created + 1
       ELSE UNCHANGED <<annotations, selectedAnnotationId, created>>
    /\ isDragging' = FALSE
    /\ newBbox' = NullBox
    /\ isPanning' = FALSE
    /\ isResizing' = FALSE
    /\ resizeHandle' = Null
    /\ originalBbox' = NullBox
    /\ UNCHANGED <<panModeCanvas, tool, isPanMode, dragStart, resizeStart>>

\* onMouseUp={handleMouseUp}
onMouseUp == handleMouseUp /\ lastEvent' = Event("mouseup")

\* a mouseleave that only drops the gesture
onMouseLeave_Discard ==
    /\ UNCHANGED <<annotations, selectedAnnotationId, created>>
    /\ isDragging' = FALSE
    /\ newBbox' = NullBox
    /\ isPanning' = FALSE
    /\ isResizing' = FALSE
    /\ resizeHandle' = Null
    /\ originalBbox' = NullBox
    /\ UNCHANGED <<panModeCanvas, tool, isPanMode, dragStart, resizeStart>>
    /\ lastEvent' = Event("mouseleave")

\* onMouseLeave={handleMouseUp}
onMouseLeave == handleMouseUp /\ lastEvent' = Event("mouseleave")

\* handleCanvasClick; the browser sends click after the mouseup of a press
handleCanvasClick(coords) ==
    /\ lastEvent.kind = "mouseup"
    /\ lastEvent' = [kind |-> "click", coords |-> coords]
    /\ IF tool = "select"
       THEN selectedAnnotationId' = ClickedId(annotations, coords)
       ELSE UNCHANGED selectedAnnotationId
    /\ UNCHANGED <<panModeCanvas, annotations, tool, created, isPanMode, gestureVars>>

\* setPanMode(active), the imperative handle of the pan-mode canvas
setPanMode(active) ==
    /\ panModeCanvas
    /\ isPanMode' = active
    /\ lastEvent' = NoEvent
    /\ UNCHANGED <<hostVars, gestureVars>>

\* Toolbar onToolChange
onToolChange(t) ==
    /\ tool' = t
    /\ lastEvent' = NoEvent
    /\ UNCHANGED <<panModeCanvas, annotations, selectedAnnotationId, created,
                   isPanMode, gestureVars>>

\* AnnotationSidebar card click: onSelect(annotation.id)
onSelect(id) ==
    /\ \E i \in 1..Len(annotations) : annotations[i].id = id
    /\ selectedAnnotationId' = id
    /\ lastEvent' = NoEvent
    /\ UNCHANGED <<panModeCanvas, annotations, tool, created, isPanMode, gestureVars>>

\* annotations.filter(a => a.id !== id)
RECURSIVE Without(_, _)
Without(anns, id) ==
    IF anns = <<>> THEN <<>>
    ELSE IF Head(anns).id = id THEN Without(Tail(anns), id)
    ELSE <<Head(anns)>> \o Without(Tail(anns), id)

\* a delete that clears the selection instead of moving it
handleDelete_ClearsSelection(id) ==
    /\ \E i \in 1..Len(annotations) : annotations[i].id = id
    /\ annotations' = Without(annotations, id)
    /\ selectedAnnotationId' =
          IF selectedAnnotationId = id THEN "" ELSE selectedAnnotationId
    /\ lastEvent' = Event("delete")
    /\ UNCHANGED <<panModeCanvas, tool, created, isPanMode, gestureVars>>

\* AnnotationSidebar handleDelete
handleDelete(id) ==
    /\ \E i \in 1..Len(annotations) : annotations[i].id = id
    /\ LET updated == Without(annotations, id) IN
       /\ annotations' = updated
       /\ selectedAnnotationId' =
             IF selectedAnnotationId = id
             THEN (IF Len(updated) > 0 THEN updated[1].id ELSE "")
             ELSE selectedAnnotationId
    /\ lastEvent' = Event("delete")
    /\ UNCHANGED <<panModeCanvas, tool, created, isPanMode, gestureVars>>

\* AnnotationSidebar visibility button
toggleVisibility(id) ==
    /\ \E i \in 1..Len(annotations) : annotations[i].id = id
    /\ annotations' =
          [i \in 1..Len(annotations) |->
              IF annotations[i].id = id
              THEN WithVisible(annotations[i], ~IsVisible(annotations[i]))
              ELSE annotations[i]]
    /\ lastEvent' = NoEvent
    /\ UNCHANGED <<panModeCanvas, selectedAnnotationId, tool, created, isPanMode,
                   gestureVars>>

\* a detection stores its result as the image's annotation list
detectionApplied(result) ==
    /\ annotations # result
    /\ annotations' = result
    /\ lastEvent' = NoEvent
    /\ UNCHANGED <<panModeCanvas, selectedAnnotationId, tool, created, isPanMode,
                   gestureVars>>

CanvasInit == WorkspaceInit /\ \E panMode \in BOOLEAN : CanvasMounted(panMode)

\* one more event is handled; the batch workspace, the label editor of the
\* sidebar and the view transform are not involved
Handled ==
    /\ events < MaxEvents
    /\ events' = events + 1
    /\ UNCHANGED <<batchVars, sidebarVars, viewVars>>

CanvasNext ==
    \/ (\E coords \in Points : \E button \in Buttons : handleMouseDown(coords, button))
          /\ Handled
    \/ (\E coords \in Points : handleMouseMove(coords)) /\ Handled
    \/ onMouseUp /\ Handled
    \/ onMouseLeave /\ Handled
    \/ (\E coords \in Points : handleCanvasClick(coords)) /\ Handled
    \/ (\E active \in BOOLEAN : setPanMode(active)) /\ Handled
    \/ (\E t \in Tools : onToolChange(t)) /\ Handled
    \/ (\E i \in 1..Len(annotations) : onSelect(annotations[i].id)) /\ Handled
    \/ (\E i \in 1..Len(annotations) : handleDelete(annotations[i].id))
          /\ Handled
    \/ (\E i \in 1..Len(annotations) : toggleVisibility(annotations[i].id))
          /\ Handled
    \/ (\E result \in DetectorResults : detectionApplied(result)) /\ Handled

CanvasSpec == CanvasInit /\ [][CanvasNext]_vars

\* ------------------------------------------------ the label editor
MaxText == 3        \* characters typed into the label input

\* the characters of a label: a white-space character and a letter
Whitespace == {" "}
Chars == Whitespace \cup {"a"}

\* the values the label input can hold
Texts == UNION {[1..n -> Chars] : n \in 0..MaxText}

RECURSIVE TrimStart(_)
\* text without its leading white space
TrimStart(text) ==
    IF text # <<>> /\ Head(text) \in Whitespace THEN TrimStart(Tail(text))
    ELSE text

RECURSIVE TrimEnd(_)
\* text without its trailing white space
TrimEnd(text) ==
    IF text # <<>> /\ text[Len(text)] \in Whitespace
    THEN TrimEnd(SubSeq(text, 1, Len(text) - 1))
    ELSE text

\* String.prototype.trim
Trim(text) == TrimEnd(TrimStart(text))

RECURSIVE Join(_)
\* the string of a sequence of characters
Join(text) == IF text = <<>> THEN "" ELSE Head(text) \o Join(Tail(text))

\* the characters of a stored label; a label that was not typed here (the
\* detector's, the default of a drawn box) is one run of letters
TextOf(label) ==
    IF \E text \in Texts : Join(text) = label
    THEN CHOOSE text \in Texts : Join(text) = label
    ELSE <<label>>

\* the label of annotation id
LabelOf(anns, id) == anns[CHOOSE i \in 1..Len(anns) : anns[i].id = id].label

\* { ...a, label } for the annotation id
WithLabel(anns, id, label) ==
    [i \in 1..Len(anns) |->
        IF anns[i].id = id
        THEN [f \in DOMAIN anns[i] |-> IF f = "label" THEN label ELSE anns[i][f]]
        ELSE anns[i]]

\* the canvas, the selection and the toolbar are not involved
editorFrame ==
    UNCHANGED <<batchVars, viewVars, panModeCanvas, selectedAnnotationId, tool,
                isPanMode, gestureVars, created>>

\* startEdit(annotation)
startEdit(id) ==
    /\ editingId' = id
    /\ editLabel' = TextOf(LabelOf(annotations, id))
    /\ lastEvent' = NoEvent
    /\ UNCHANGED annotations

\* onChange of the label input: setEditLabel(e.target.value)
setEditLabel(text) ==
    /\ editingId # Null
    /\ editLabel' = text
    /\ lastEvent' = NoEvent
    /\ UNCHANGED <<annotations, editingId>>

\* a saveEdit that tests the label without trimming it
saveEdit_Untrimmed(id) ==
    /\ editingId = id
    /\ IF editLabel = <<>>
       THEN /\ lastEvent' = [kind |-> "saveEdit", toast |-> "Label cannot be empty"]
            /\ UNCHANGED <<annotations, editingId, editLabel>>
       ELSE /\ annotations' = WithLabel(annotations, id, Join(Trim(editLabel)))
            /\ editingId' = Null
            /\ editLabel' = <<>>
            /\ lastEvent' = [kind |-> "saveEdit", toast |-> "Label updated"]

\* saveEdit(id): Enter in the label input or its confirm button
saveEdit(id) ==
    /\ editingId = id
    /\ IF Trim(editLabel) = <<>>
       THEN /\ lastEvent' = [kind |-> "saveEdit", toast |-> "Label cannot be empty"]
            /\ UNCHANGED <<annotations, editingId, editLabel>>
       ELSE /\ annotations' = WithLabel(annotations, id, Join(Trim(editLabel)))
            /\ editingId' = Null
            /\ editLabel' = <<>>
            /\ lastEvent' = [kind |-> "saveEdit", toast |-> "Label updated"]

\* cancelEdit
cancelEdit ==
    /\ editingId # Null
    /\ editingId' = Null
    /\ editLabel' = <<>>
    /\ lastEvent' = NoEvent
    /\ UNCHANGED annotations

EditInit == WorkspaceInit /\ CanvasMounted(FALSE)

\* one more sidebar event is handled
EditHandled ==
    /\ events < MaxEvents
    /\ events' = events + 1
    /\ editorFrame

EditNext ==
    \/ (\E result \in DetectorResults : detectionApplied(result)) /\ Handled
    \/ (\E i \in 1..Len(annotations) : startEdit(annotations[i].id)) /\ EditHandled
    \/ (\E text \in Texts : setEditLabel(text)) /\ EditHandled
    \/ (\E i \in 1..Len(annotations) : saveEdit(annotations[i].id)) /\ EditHandled
    \/ cancelEdit /\ EditHandled

EditSpec == EditInit /\ [][EditNext]_vars

\* ------------------------------------------------ the view transform
\* The scale is kept as an exact fraction; the comparisons of fit and zoom
\* come out as they do on the rounded values.  ViewSpec has the select tool
\* and no selection, so a press starts no drawing and no resize.

\* padding subtracted from the container's client size
Padding == 40
\* largest scale of zoomIn: ImageCanvas.tsx, and the pan-mode canvas
MaxScale == 5
MaxScalePan == 3

\* sizes of the images loaded
ImageSizes ==
    {[width |-> 100, height |-> 100], [width |-> 200, height |-> 100],
     [width |-> 2400, height |-> 1200]}
\* client sizes of the container when the image is fitted
ClientSizes ==
    {[width |-> 140, height |-> 140], [width |-> 240, height |-> 90],
     [width |-> 240, height |-> 240]}
\* event.clientX, event.clientY of the pointer events
ClientPoints == {[x |-> 0, y |-> 0], [x |-> 50, y |-> 20], [x |-> 900, y |-> 700]}

RECURSIVE GCD(_, _)
GCD(a, b) == IF b = 0 THEN a ELSE GCD(b, a % b)

\* the fraction n / d in lowest terms (d > 0, n >= 0)
Frac(n, d) == [num |-> n \div GCD(n, d), den |-> d \div GCD(n, d)]

\* a <= b
Leq(a, b) == a.num * b.den <= b.num * a.den

\* Math.min, Math.max
MinFrac(a, b) == IF Leq(a, b) THEN a ELSE b
MaxFrac(a, b) == IF Leq(a, b) THEN b ELSE a

\* the smallest scale of zoomOut, 0.1
MinScale == Frac(1, 10)

\* a fit that may scale the image up
fitImageToCanvas_Uncapped(img, client) ==
    LET containerWidth == client.width - Padding
        containerHeight == client.height - Padding
        newScale == IF img.width * containerHeight > containerWidth * img.height
                    THEN Frac(containerWidth, img.width)
                    ELSE Frac(containerHeight, img.height)
    IN /\ scale' = newScale
       /\ offset' = [x |-> 0, y |-> 0]

\* fitImageToCanvas(img); imageAspect > containerAspect is compared by
\* cross-multiplication, all four sizes being positive
fitImageToCanvas(img, client) ==
    LET containerWidth == client.width - Padding
        containerHeight == client.height - Padding
        newScale == IF img.width * containerHeight > containerWidth * img.height
                    THEN Frac(containerWidth, img.width)
                    ELSE Frac(containerHeight, img.height)
    IN /\ scale' = MinFrac(newScale, Frac(1, 1))
       /\ offset' = [x |-> 0, y |-> 0]

\* img.onload: setImageElement(img); fitImageToCanvas(img)
imageLoaded(img, client) ==
    /\ imageElement' = img
    /\ fitImageToCanvas(img, client)
    /\ lastEvent' = [kind |-> "fit", caller |-> "onload", image |-> img,
                     client |-> client]
    /\ UNCHANGED <<panStart, isPanning, isPanMode>>

\* resetView, reachable through the imperative handle of the pan-mode canvas
resetView(client) ==
    /\ panModeCanvas
    /\ imageElement # NoImage
    /\ fitImageToCanvas(imageElement, client)
    /\ lastEvent' = [kind |-> "fit", caller |-> "resetView",
                     image |-> imageElement, client |-> client]
    /\ UNCHANGED <<imageElement, panStart, isPanning, isPanMode>>

\* zoomIn: setScale(prev => Math.min(prev * 1.2, max))
zoomIn ==
    /\ scale' = MinFrac(Frac(scale.num * 6, scale.den * 5),
                        Frac(IF panModeCanvas THEN MaxScalePan ELSE MaxScale, 1))
    /\ lastEvent' = Event("zoomIn")
    /\ UNCHANGED <<imageElement, offset, panStart, isPanning, isPanMode>>

\* zoomOut: setScale(prev => Math.max(prev / 1.2, 0.1))
zoomOut ==
    /\ scale' = MaxFrac(Frac(scale.num * 5, scale.den * 6), MinScale)
    /\ lastEvent' = Event("zoomOut")
    /\ UNCHANGED <<imageElement, offset, panStart, isPanning, isPanMode>>

\* the press that started the panning and the offset it found, kept in the
\* record of a pointer event for as long as pointer moves alone follow it
HasOrigin(e) == "origin" \in DOMAIN e

\* handleMouseDown with the select tool and no resize handle under the pointer
panMouseDown(client, button) ==
    /\ IF button = 1 \/ (panModeCanvas /\ isPanMode /\ button = 0)
       THEN /\ panStart' = client
            /\ isPanning' = TRUE
            /\ lastEvent' = [kind |-> "mousedown", client |-> client, moves |-> 0,
                             origin |-> [client |-> client, offset |-> offset]]
       ELSE /\ UNCHANGED <<panStart, isPanning>>
            /\ lastEvent' = Event("mousedown")
    /\ UNCHANGED <<imageElement, scale, offset, isPanMode>>

\* a pan that keeps its anchor at the press
panMouseMove_FromAnchor(client) ==
    /\ IF isPanning
       THEN /\ offset' = [x |-> offset.x + (client.x - panStart.x),
                          y |-> offset.y + (client.y - panStart.y)]
            /\ UNCHANGED panStart
            /\ lastEvent' =
                  IF HasOrigin(lastEvent)
                  THEN [kind |-> "mousemove", client |-> client,
                        moves |-> lastEvent.moves + 1, origin |-> lastEvent.origin]
                  ELSE [kind |-> "mousemove", client |-> client]
       ELSE /\ UNCHANGED <<offset, panStart>>
            /\ lastEvent' = [kind |-> "mousemove", client |-> client]
    /\ UNCHANGED <<imageElement, scale, isPanning, isPanMode>>

\* handleMouseMove, pan branch
panMouseMove(client) ==
    /\ IF isPanning
       THEN /\ offset' = [x |-> offset.x + (client.x - panStart.x),
                          y |-> offset.y + (client.y - panStart.y)]
            /\ panStart' = client
            /\ lastEvent' =
                  IF HasOrigin(lastEvent)
                  THEN [kind |-> "mousemove", client |-> client,
                        moves |-> lastEvent.moves + 1, origin |-> lastEvent.origin]
                  ELSE [kind |-> "mousemove", client |-> client]
       ELSE /\ UNCHANGED <<offset, panStart>>
            /\ lastEvent' = [kind |-> "mousemove", client |-> client]
    /\ UNCHANGED <<imageElement, scale, isPanning, isPanMode>>

\* what a view event leaves alone
viewFrame ==
    UNCHANGED <<batchVars, sidebarVars, panModeCanvas, annotations,
                selectedAnnotationId, tool, created, isDragging, dragStart,
                newBbox, isResizing, resizeHandle, resizeStart, originalBbox>>

\* one more view event is handled
ViewHandled ==
    /\ events < MaxEvents
    /\ events' = events + 1
    /\ viewFrame

ViewInit == CanvasInit

ViewNext ==
    \/ (\E img \in ImageSizes : \E client \in ClientSizes : imageLoaded(img, client))
          /\ ViewHandled
    \/ (\E client \in ClientSizes : resetView(client)) /\ ViewHandled
    \/ zoomIn /\ ViewHandled
    \/ zoomOut /\ ViewHandled
    \/ (\E client \in ClientPoints : \E button \in Buttons :
            panMouseDown(client, button)) /\ ViewHandled
    \/ (\E client \in ClientPoints : panMouseMove(client)) /\ ViewHandled
    \/ onMouseUp /\ Handled
    \/ (\E active \in BOOLEAN : setPanMode(active)) /\ Handled

ViewSpec == ViewInit /\ [][ViewNext]_vars

\* ------------------------------------------- image and display space
\* drawCanvas maps image space to display space and getCanvasCoordinates
\* maps back, in floating point: every product, sum, difference and
\* quotient is rounded to the nearest number with a mantissa of
\* MantissaBits bits, ties to even.  A JavaScript number has 53 bits; the
\* rounding is the same at any width.  Numbers are fractions that such a
\* mantissa can hold; all values here are non-negative.
MantissaBits == 5   \* bits of mantissa of a number

RECURSIVE Pow2(_)
Pow2(n) == IF n = 0 THEN 1 ELSE 2 * Pow2(n - 1)

\* n / d rounded to an integer, ties to even
RoundHalfEven(n, d) ==
    LET q == n \div d
        r == n % d
    IN IF 2 * r > d THEN q + 1
       ELSE IF 2 * r < d THEN q
       ELSE IF q % 2 = 0 THEN q ELSE q + 1

RECURSIVE RoundScaled(_, _, _)
\* n / d * 2^e rounded to MantissaBits bits (n > 0): the exponent is moved
\* until the mantissa n / d lies in [2^(MantissaBits - 1), 2^MantissaBits)
RoundScaled(n, d, e) ==
    IF n >= d * Pow2(MantissaBits) THEN RoundScaled(n, 2 * d, e + 1)
    ELSE IF n < d * Pow2(MantissaBits - 1) THEN RoundScaled(2 * n, d, e - 1)
    ELSE IF e >= 0 THEN Frac(RoundHalfEven(n, d) * Pow2(e), 1)
    ELSE Frac(RoundHalfEven(n, d), Pow2(0 - e))

\* the number nearest to n / d
Round(n, d) == IF n = 0 THEN Frac(0, 1) ELSE RoundScaled(n, d, 0)

\* a * b, a + b, a - b (a >= b) and a / b as the machine computes them
Mul(a, b) == Round(a.num * b.num, a.den * b.den)
Add(a, b) == Round(a.num * b.den + b.num * a.den, a.den * b.den)
Sub(a, b) == Round(a.num * b.den - b.num * a.den, a.den * b.den)
Div(a, b) == Round(a.num * b.den, a.den * b.num)

\* an integer as a number
Num(n) == Frac(n, 1)

\* the scales of the canvas: 0.1 and 1.2 as stored, one half and 1
FloatScales == {Round(1, 10), Round(6, 5), Frac(1, 2), Frac(1, 1)}

\* the offsets panning has left
Offsets == {[x |-> 0, y |-> 0], [x |-> 7, y |-> 20]}

\* drawCanvas: bbox.x * scale + offset.x, bbox.y * scale + offset.y
toDisplaySpace(pt) ==
    [x |-> Add(Mul(Num(pt.x), scale), Num(offset.x)),
     y |-> Add(Mul(Num(pt.y), scale), Num(offset.y))]

\* a pointer position that is divided by the scale with the offset left in
getCanvasCoordinates_OffsetKept(d) ==
    [x |-> Div(d.x, scale), y |-> Div(d.y, scale)]

\* getCanvasCoordinates for a pointer at display position d of the canvas
\* (d is event.client less rect.left, rect.top)
getCanvasCoordinates(d) ==
    [x |-> Div(Sub(d.x, Num(offset.x)), scale),
     y |-> Div(Sub(d.y, Num(offset.y)), scale)]

\* drawCanvas places the image point pt
drawPoint(pt) ==
    /\ lastEvent' = [kind |-> "draw", image |-> pt, display |-> toDisplaySpace(pt)]
    /\ UNCHANGED viewVars

\* the pointer is put where the point was drawn
pointerAtDrawn ==
    /\ lastEvent.kind = "draw"
    /\ lastEvent' = [kind |-> "pointer", image |-> lastEvent.image,
                     display |-> lastEvent.display,
                     coords |-> getCanvasCoordinates(lastEvent.display)]
    /\ UNCHANGED viewVars

\* the canvas after zooming and panning have set scale and offset
Transformed(panMode, s, o) ==
    /\ SidebarMounted
    /\ imageElement = [width |-> 100, height |-> 100]
    /\ scale = s
    /\ offset = o
    /\ panStart = [x |-> 0, y |-> 0]
    /\ panModeCanvas = panMode
    /\ annotations = <<>>
    /\ selectedAnnotationId = Null
    /\ tool = "select"
    /\ isDragging = FALSE
    /\ dragStart = [x |-> 0, y |-> 0]
    /\ newBbox = NullBox
    /\ isPanning = FALSE
    /\ isPanMode = FALSE
    /\ isResizing = FALSE
    /\ resizeHandle = Null
    /\ resizeStart = [x |-> 0, y |-> 0]
    /\ originalBbox = NullBox
    /\ created = 0
    /\ lastEvent = NoEvent
    /\ events = 0

RoundTripInit ==
    /\ WorkspaceInit
    /\ \E panMode \in BOOLEAN : \E s \in FloatScales : \E o \in Offsets :
          Transformed(panMode, s, o)

\* one more step; nothing but the record of the last event changes
Mapped ==
    /\ events < MaxEvents
    /\ events' = events + 1
    /\ UNCHANGED <<batchVars, sidebarVars, panModeCanvas, annotations,
                   selectedAnnotationId, tool, isPanMode, gestureVars, created>>

RoundTripNext ==
    \/ (\E pt \in Points : drawPoint(pt)) /\ Mapped
    \/ pointerAtDrawn /\ Mapped

RoundTripSpec == RoundTripInit /\ [][RoundTripNext]_vars

\* ------------------------------------------------------------ properties
ImageIds(imgs) == {imgs[i].id : i \in 1..Len(imgs)}

\* the record of image id in imgs (ids are unique)
ImageOf(imgs, id) == imgs[CHOOSE i \in 1..Len(imgs) : imgs[i].id = id]

\* the images of run r that are loaded and in status processing
ProcessingOf(r) ==
    {id \in ImageIds(runs[r].images) \cap ImageIds(images) :
        ImageOf(images, id).status = "processing"}

\* this step issued a new detect-batch call
RunStarted == Len(runs') = Len(runs) + 1

C3_RetrySubmitsFailed ==
    [][\A id \in ImageIds(images) \cap ImageIds(images') :
         (/\ ImageOf(images, id).status = "failed"
          /\ ImageOf(images', id).status # "failed"
          /\ ~lastResponse'.settled)
         => (/\ RunStarted
             /\ id \in ImageIds(runs'[Len(runs')].images)
             /\ ImageOf(images', id).status = "processing")]_vars

\* the outcome the detector reported for the i-th image of the last response
OwnAnnotations(i) ==
    IF lastResponse.kinds[i] = "ok" THEN <<lastResponse.images[i].id>> ELSE <<>>

\* C4 as stated: once a response is applied, every loaded image whose own
\* entry is a success is completed with progress 100 and holds exactly the
\* annotations of that entry.
C4_SuccessApplied ==
    (lastResponse.settled /\ lastResponse.ok) =>
        \A i \in 1..Len(lastResponse.images) :
            LET id == lastResponse.images[i].id IN
            (lastResponse.kinds[i] # "error" /\ id \in ImageIds(images)) =>
                /\ ImageOf(images, id).status = "completed"
                /\ ImageOf(images, id).progress = 100
                /\ ImageOf(images, id).annotations = OwnAnnotations(i)

\* C5 as stated: an error entry fails only its own image: the step that
\* applies a response moves to failed no image whose own entry is a success.
C5_FailureIsolated ==
    [][(lastResponse'.settled /\ lastResponse'.ok) =>
         \A i \in 1..Len(lastResponse'.images) :
            LET id == lastResponse'.images[i].id IN
            (/\ lastResponse'.kinds[i] # "error"
             /\ id \in ImageIds(images)
             /\ ImageOf(images, id).status # "failed")
            => ImageOf(images', id).status # "failed"]_vars

\* C6 as stated: completed images have progress 100, failed images progress 0.
C6_TerminalProgress ==
    \A i \in 1..Len(images) :
        /\ images[i].status = "completed" => images[i].progress = 100
        /\ images[i].status = "failed" => images[i].progress = 0

\* C7 as stated: a processBatch call made by handleBatchProcess while
\* isProcessing is true is rejected: "already in progress" is surfaced, no
\* image changes and no call is issued.
C7_RejectedWhileProcessing ==
    [][(isProcessing /\ Len(handlers') < Len(handlers) /\ lastToast' # "none")
        => (lastToast' = "already" /\ images' = images /\ runs' = runs)]_vars

\* C8 as stated: results are applied by image id: the step that applies a
\* response leaves every image outside the run as it was and leaves every
\* loaded image of the run with the outcome of its own entry.
C8_AppliedByIdentity ==
    [][(lastResponse'.settled /\ lastResponse'.ok) =>
         /\ \A id \in ImageIds(images) \ ImageIds(lastResponse'.images) :
               ImageOf(images', id) = ImageOf(images, id)
         /\ \A i \in 1..Len(lastResponse'.images) :
               LET id == lastResponse'.images[i].id IN
               id \in ImageIds(images) =>
                  ImageOf(images', id).status =
                     IF lastResponse'.kinds[i] = "error" THEN "failed"
                     ELSE "completed"]_vars

\* C9: the stored BatchProgress is the projection of the image list.
C9_ProgressIsProjection ==
    LET n(st) == Cardinality({i \in 1..Len(images) : images[i].status = st})
        p == batchProgress.percentage
    IN /\ batchProgress.total = Len(images)
       /\ batchProgress.completed = n("completed")
       /\ batchProgress.failed = n("failed")
       /\ batchProgress.processing = n("processing")
       /\ p[2] > 0
       /\ p[1] * Len(images) = 100 * (n("completed") + n("failed")) * p[2]
       /\ Len(images) = 0 => p[1] = 0

\* one image is done, the other still processing: 50 percent
C9_Witness ==
    /\ batchProgress.completed = 1
    /\ batchProgress.processing = 1
    /\ batchProgress.percentage = <<100, 2>>

\* C10 as stated: when a run has finished, none of its loaded images is
\* left in status processing.
C10_NoneLeftProcessing ==
    lastResponse.settled =>
        \A id \in ImageIds(lastResponse.images) \cap ImageIds(images) :
            ImageOf(images, id).status \in {"completed", "failed"}

\* this step is a call of retryFailed: processBatch is reached only from
\* handleBatchProcess, which then leaves handlers, and from retryFailed
RetryStep ==
    /\ selectedModel
    /\ handlers' = handlers
    /\ lastToast' \in {"starting", "already", "noFailed"}

\* C11 as stated: a retry leaves every image that was not failed as it was
\* and does not send it to the detector.
C11_RetryTouchesOnlyFailed ==
    [][RetryStep =>
         \A id \in ImageIds(images) :
            ImageOf(images, id).status # "failed" =>
                /\ ImageOf(images', id) = ImageOf(images, id)
                /\ RunStarted => id \notin ImageIds(runs'[Len(runs')].images)]_vars

\* C12: retryFailed on images none of which is failed reports "no failed
\* images" and changes no image, issues no call and leaves isProcessing.
C12_RetryNothingIsNoOp ==
    [][(RetryStep /\ CountStatus(images, "failed") = 0) =>
         /\ lastToast' = "noFailed"
         /\ images' = images
         /\ batchProgress' = batchProgress
         /\ runs' = runs
         /\ isProcessing' = isProcessing
         /\ shouldCancel' = shouldCancel]_vars

\* retryFailed has just returned early on a loaded batch holding a pending image
C12_Witness ==
    /\ lastToast = "noFailed"
    /\ CountStatus(images, "pending") > 0
    /\ CountStatus(images, "failed") = 0

\* this step settles a detect-batch call other than the one issued last
EarlierRunSettles ==
    /\ Len(runs) >= 2
    /\ \E r \in 1..(Len(runs) - 1) : runs' = RemoveAt(runs, r)
    /\ runs' # RemoveAt(runs, Len(runs))

\* C28 as stated: while isProcessing is true the call issued last belongs to
\* a run that was not cancelled; the settling of an earlier call leaves
\* isProcessing true.
C28_EarlierRunKeepsFlag ==
    [][(isProcessing /\ EarlierRunSettles) => isProcessing']_vars

\* this step is a processBatch call that passed the isProcessing guard
BatchAccepted == lastToast' = Toast("starting")

\* C29 as stated: no processBatch call observes a cancellation flag set
\* before it was made; every accepted call issues its detect-batch request.
C29_CancelDoesNotCarryOver ==
    [][BatchAccepted => RunStarted]_vars

\* C30 as stated: a step that issues a detect-batch call leaves every image
\* that is completed or processing as it is and does not send it.
C30_OnlyPendingDispatched ==
    [][RunStarted =>
         \A id \in ImageIds(images) :
            ImageOf(images, id).status \in {"completed", "processing"} =>
                /\ ImageOf(images', id) = ImageOf(images, id)
                /\ id \notin ImageIds(runs'[Len(runs')].images)]_vars

\* ------------------------------------------------- canvas properties
\* this step handled a mouseup or a mouseleave
Released == lastEvent'.kind \in {"mouseup", "mouseleave"}

\* a drag-create gesture is in progress with the bbox tool
Drawing == isDragging /\ tool = "bbox" /\ newBbox # NullBox

\* the step appended exactly one annotation and kept the others
AppendedOne ==
    /\ Len(annotations') = Len(annotations) + 1
    /\ SubSeq(annotations', 1, Len(annotations)) = annotations

\* C13: releasing a drag-create gesture appends exactly one annotation when
\* the candidate is wider and higher than 10, and otherwise leaves the
\* annotation list and the selection as they were.
C13_DragCreateThreshold ==
    [][(Released /\ Drawing) =>
         IF newBbox.width > 10 /\ newBbox.height > 10
         THEN AppendedOne
         ELSE annotations' = annotations
              /\ selectedAnnotationId' = selectedAnnotationId]_vars

\* a gesture that ended with an 11 x 11 candidate has stored it
C13_Witness ==
    /\ lastEvent.kind = "mouseup"
    /\ Len(annotations) > 0
    /\ annotations[Len(annotations)].source = "manual"
    /\ annotations[Len(annotations)].bbox.width = 11
    /\ annotations[Len(annotations)].bbox.height = 11

\* C14 as stated: the annotation a drag-create gesture appends is manual,
\* has confidence 1.0, is unverified and visible, carries the candidate box,
\* is last in the list and is selected.
C14_NewAnnotationFields ==
    [][(Released /\ Drawing /\ AppendedOne) =>
         LET a == annotations'[Len(annotations')] IN
         /\ a.source = "manual"
         /\ a.confidence = 100
         /\ a.bbox = newBbox
         /\ selectedAnnotationId' = a.id
         /\ "verified" \in DOMAIN a /\ a.verified = FALSE
         /\ "visible" \in DOMAIN a /\ a.visible = TRUE]_vars

\* this step is a pointer move handled by the resize branch
ResizeMove ==
    /\ lastEvent'.kind = "mousemove"
    /\ ~panModeCanvas /\ isResizing
    /\ originalBbox # NullBox /\ resizeHandle # Null
    /\ ~Drawing

\* C15: after every pointer move in the Resizing state the stored bbox of
\* the resized annotation is at least 10 wide and 10 high.
C15_ResizeKeepsMinimum ==
    [][ResizeMove =>
         \A i \in 1..Len(annotations') :
            annotations'[i].id = selectedAnnotationId =>
                /\ annotations'[i].bbox.width >= 10
                /\ annotations'[i].bbox.height >= 10]_vars

\* a resize pushed past the opposite edge: the stored box was clamped
C15_Witness ==
    /\ lastEvent.kind = "mousemove" /\ isResizing /\ originalBbox # NullBox
    /\ \E i \in 1..Len(annotations) :
          /\ annotations[i].id = selectedAnnotationId
          /\ annotations[i].bbox.width = 10
          /\ originalBbox.width > 10

\* C16: a resize from a handle on the left keeps the right edge of
\* originalBbox, one from a handle on the top keeps its bottom edge, also
\* when the minimum size clamps.
C16_FarEdgeFixed ==
    [][ResizeMove =>
         \A i \in 1..Len(annotations') :
            annotations'[i].id = selectedAnnotationId =>
                LET b == annotations'[i].bbox IN
                /\ resizeHandle \in {"nw", "w", "sw"} =>
                      b.x + b.width = originalBbox.x + originalBbox.width
                /\ resizeHandle \in {"nw", "n", "ne"} =>
                      b.y + b.height = originalBbox.y + originalBbox.height]_vars

\* a resize from the nw handle that the minimum size clamped on both axes
C16_Witness ==
    /\ lastEvent.kind = "mousemove" /\ isResizing /\ resizeHandle = "nw"
    /\ originalBbox # NullBox
    /\ \E i \in 1..Len(annotations) :
          /\ annotations[i].id = selectedAnnotationId
          /\ annotations[i].bbox.width = 10
          /\ annotations[i].bbox.height = 10
          /\ annotations[i].bbox # originalBbox

\* the indices of the annotations whose bbox holds p, borders included
HitsAt(p) ==
    {i \in 1..Len(annotations) :
        /\ annotations[i].bbox.x <= p.x
        /\ p.x <= annotations[i].bbox.x + annotations[i].bbox.width
        /\ annotations[i].bbox.y <= p.y
        /\ p.y <= annotations[i].bbox.y + annotations[i].bbox.height}

\* this step is a canvas click handled with the select tool
SelectClick == lastEvent'.kind = "click" /\ tool = "select"

\* C17: a click with the select tool selects the first annotation in stored
\* order whose bbox holds the point, or none.
C17_HitTestFirstInOrder ==
    [][SelectClick =>
         LET hits == HitsAt(lastEvent'.coords) IN
         selectedAnnotationId' =
            IF hits = {} THEN Null
            ELSE annotations[CHOOSE i \in hits : \A j \in hits : i <= j].id]_vars

\* a click on a border point that two annotations hold selected the earlier one
C17_Witness ==
    /\ lastEvent.kind = "click" /\ tool = "select"
    /\ Cardinality(HitsAt(lastEvent.coords)) >= 2
    /\ \E i \in HitsAt(lastEvent.coords) :
          /\ annotations[i].id = selectedAnnotationId
          /\ annotations[i].bbox.x = lastEvent.coords.x
          /\ \A j \in HitsAt(lastEvent.coords) : i <= j

\* C18 as stated: a click never selects an annotation whose visible is false.
C18_HiddenNeverHit ==
    [][SelectClick =>
         \A i \in 1..Len(annotations) :
            annotations[i].id = selectedAnnotationId' =>
                ~("visible" \in DOMAIN annotations[i]
                  /\ annotations[i].visible = FALSE)]_vars

\* no gesture flag, candidate box, resize handle or original bbox is set
Idle ==
    /\ ~isDragging /\ ~isResizing /\ ~isPanning
    /\ newBbox = NullBox /\ resizeHandle = Null /\ originalBbox = NullBox

\* C19: a mouseup and a mouseleave both end every gesture in Idle, and
\* both have the one effect on the annotation list and the selection: a
\* drawn candidate wider and higher than 10 is stored and selected, and
\* nothing else changes.
C19_ReleaseReturnsToIdle ==
    [][Released =>
         /\ Idle'
         /\ IF Drawing /\ newBbox.width > 10 /\ newBbox.height > 10
            THEN /\ AppendedOne
                 /\ annotations'[Len(annotations')].bbox = newBbox
                 /\ selectedAnnotationId' = annotations'[Len(annotations')].id
            ELSE /\ annotations' = annotations
                 /\ selectedAnnotationId' = selectedAnnotationId]_vars

\* the pointer left the canvas during a drag-create gesture: the box is stored
C19_Witness ==
    /\ lastEvent.kind = "mouseleave"
    /\ Idle
    /\ Len(annotations) > 0
    /\ annotations[Len(annotations)].source = "manual"
    /\ selectedAnnotationId = annotations[Len(annotations)].id

\* no annotation is selected
NoneSelected(id) == id \in {Null, ""}

\* C20: a deletion removes exactly one annotation and keeps the others in
\* order; if the removed one was selected the selection becomes the first
\* remaining annotation, or none; otherwise the selection stays.
C20_DeleteMovesSelection ==
    [][lastEvent'.kind = "delete" =>
         \E k \in 1..Len(annotations) :
            /\ annotations' = SubSeq(annotations, 1, k - 1)
                                \o SubSeq(annotations, k + 1, Len(annotations))
            /\ IF selectedAnnotationId = annotations[k].id
               THEN IF Len(annotations') > 0
                    THEN selectedAnnotationId' = annotations'[1].id
                    ELSE NoneSelected(selectedAnnotationId')
               ELSE selectedAnnotationId' = selectedAnnotationId]_vars

\* the drawn annotation, selected and last of three, was deleted: the
\* selection moved to the first of the two that remain
C20_Witness ==
    /\ lastEvent.kind = "delete"
    /\ created = 1
    /\ Len(annotations) = 2
    /\ \A i \in 1..Len(annotations) : annotations[i].source = "ai"
    /\ selectedAnnotationId = annotations[1].id

\* ------------------------------------------------- the resize computation
\* The resize branch of handleMouseMove is a function of originalBbox, the
\* handle, the press position and the pointer position.  Detector boxes and
\* pointer positions are real numbers (the fitted scale is a fraction), so
\* every handle of every box can be the one under a press, the edge handles
\* of a box narrower or flatter than the minimum included; the grid of
\* CanvasSpec holds whole pixels at scale 1 and cannot place a press there.
\* ResizeSpec starts in the Resizing state with the box, the handle and the
\* press position drawn from small sets and lets the pointer move.

\* original boxes: one narrower than the minimum, one flatter, one larger
ResizeBoxes == {Box(5, 10, 9, 30), Box(10, 5, 30, 9), Box(5, 5, 20, 20)}

\* positions of the press that started the resize
ResizeStarts == {[x |-> 10, y |-> 10], [x |-> 21, y |-> 21]}

\* the canvas of ImageCanvas.tsx after a press on a handle of the selected box
ResizeStarted(orig, handle, start) ==
    /\ SidebarMounted
    /\ ViewMounted
    /\ panModeCanvas = FALSE
    /\ annotations = <<AiAnnotation("ai-1", "person", 95, orig)>>
    /\ selectedAnnotationId = "ai-1"
    /\ tool = "select"
    /\ isDragging = FALSE
    /\ dragStart = [x |-> 0, y |-> 0]
    /\ newBbox = NullBox
    /\ isPanning = FALSE
    /\ isPanMode = FALSE
    /\ isResizing = TRUE
    /\ resizeHandle = handle
    /\ resizeStart = start
    /\ originalBbox = orig
    /\ created = 0
    /\ lastEvent = Event("mousedown")
    /\ events = 0

ResizeInit ==
    /\ WorkspaceInit
    /\ \E orig \in ResizeBoxes : \E k \in 1..Len(HandleOrder) :
          \E start \in ResizeStarts : ResizeStarted(orig, HandleOrder[k], start)

ResizeNext == \E coords \in Points : handleMouseMove(coords) /\ Handled

ResizeSpec == ResizeInit /\ [][ResizeNext]_vars

\* C25 as stated: a resize from handle n or s keeps x and width of
\* originalBbox, one from handle e or w keeps its y and height.
C25_EdgeHandleOwnAxis ==
    [][ResizeMove =>
         \A i \in 1..Len(annotations') :
            annotations'[i].id = selectedAnnotationId =>
                LET b == annotations'[i].bbox IN
                /\ resizeHandle \in {"n", "s"} =>
                      b.x = originalBbox.x /\ b.width = originalBbox.width
                /\ resizeHandle \in {"e", "w"} =>
                      b.y = originalBbox.y /\ b.height = originalBbox.height]_vars

\* the number of gesture flags that are set
ActiveGestures ==
    (IF isDragging THEN 1 ELSE 0) + (IF isResizing THEN 1 ELSE 0)
    + (IF isPanning THEN 1 ELSE 0)

\* C27 as stated: isDragging, isResizing and isPanning are never set together.
C27_OneGestureAtATime == ActiveGestures <= 1

\* the text holds nothing but white space
Blank(text) == \A i \in 1..Len(text) : text[i] \in Whitespace

\* C21: a saveEdit whose label is empty after trimming shows the validation
\* error and changes neither the annotation list nor the editor, and no
\* saveEdit stores a label that is empty or all white space.
C21_EmptyLabelRejected ==
    [][lastEvent'.kind = "saveEdit" =>
         /\ Blank(editLabel) =>
               /\ lastEvent'.toast = "Label cannot be empty"
               /\ annotations' = annotations
               /\ editingId' = editingId /\ editLabel' = editLabel
         /\ \A i \in 1..Len(annotations') :
               annotations'[i].label \notin {Join(text) : text \in {t \in Texts : Blank(t)}}]_vars

\* a label of white space alone was submitted and refused
C21_Witness ==
    /\ lastEvent.kind = "saveEdit"
    /\ lastEvent.toast = "Label cannot be empty"
    /\ editLabel # <<>> /\ Blank(editLabel)
    /\ editingId # Null

\* C22 as stated: after a zoomIn or a zoomOut the scale is at least 0.1 and
\* at most the largest scale of the canvas.
C22_ZoomWithinRange ==
    [][lastEvent'.kind \in {"zoomIn", "zoomOut"} =>
         /\ scale'.den <= 10 * scale'.num
         /\ scale'.num <= (IF panModeCanvas THEN 3 ELSE 5) * scale'.den]_vars

\* the scales a fit chooses from: 1 and the two ratios of padded container
\* side to image side
FitCandidates(e) ==
    {Frac(1, 1), Frac(e.client.width - 40, e.image.width),
     Frac(e.client.height - 40, e.image.height)}

\* C23: a fit sets the scale to min(1, containerW / imageW, containerH /
\* imageH) and the offset to (0, 0).
C23_FitIsLargestFitting ==
    [][lastEvent'.kind = "fit" =>
         /\ scale' \in FitCandidates(lastEvent')
         /\ \A c \in FitCandidates(lastEvent') :
               scale'.num * c.den <= c.num * scale'.den
         /\ offset' = [x |-> 0, y |-> 0]]_vars

\* an image twice as wide as the padded container, and no higher, was
\* fitted at one half
C23_Witness ==
    /\ lastEvent.kind = "fit"
    /\ lastEvent.image.width > lastEvent.client.width - 40
    /\ lastEvent.image.height <= lastEvent.client.height - 40
    /\ scale = [num |-> 1, den |-> 2]
    /\ offset = [x |-> 0, y |-> 0]

\* C26: a pointer move while panning leaves scale and annotations alone,
\* and after any number of moves since the press the offset has changed by
\* the pointer position minus the position of the press.
C26_PanAccumulates ==
    [][(lastEvent'.kind = "mousemove" /\ isPanning) =>
         /\ scale' = scale
         /\ annotations' = annotations
         /\ HasOrigin(lastEvent') =>
               /\ offset'.x - lastEvent'.origin.offset.x
                     = lastEvent'.client.x - lastEvent'.origin.client.x
               /\ offset'.y - lastEvent'.origin.offset.y
                     = lastEvent'.client.y - lastEvent'.origin.client.y]_vars

\* the third move of a pan has carried the offset 900 to the right of where
\* the press found it
C26_Witness ==
    /\ lastEvent.kind = "mousemove" /\ isPanning
    /\ HasOrigin(lastEvent)
    /\ lastEvent.moves >= 3
    /\ offset.x - lastEvent.origin.offset.x = 900

WithinTolerance(back, pc, off) ==
    LET diff == back.num - pc * back.den
        abs == IF diff < 0 THEN 0 - diff ELSE diff
    IN abs * scale.num * Pow2(MantissaBits)
          <= back.den * (5 * pc * scale.num + 2 * off * scale.den)

Next ==
    \/ (\E files \in FileLists : handleImagesUpload(files)) /\ UNCHANGED canvasVars
    \/ handleRemoveAllImages /\ UNCHANGED canvasVars
    \/ (\E id \in 1..MaxImages : \E a \in ManualLists : handleAnnotationUpdate(id, a))
          /\ UNCHANGED canvasVars
    \/ (\E selected \in SUBSET (1..MaxImages) : handleBatchProcess(selected))
          /\ UNCHANGED canvasVars
    \/ (\E k \in 1..Len(handlers) : healthCheckFails(k)) /\ UNCHANGED canvasVars
    \/ (\E k \in 1..Len(handlers) : \E flush \in BOOLEAN : healthCheckOk(k, flush))
          /\ UNCHANGED canvasVars
    \/ (\E flush \in BOOLEAN : handleRetryFailed(flush)) /\ UNCHANGED canvasVars
    \/ cancelProcessing /\ UNCHANGED canvasVars
    \/ (\E r \in 1..Len(runs) :
          \E deltas \in [1..Len(runs[r].images) -> TickDeltas] : progressTick(r, deltas))
          /\ UNCHANGED canvasVars
    \/ (\E r \in 1..Len(runs) : fetchRejects(r)) /\ UNCHANGED canvasVars
    \/ (\E r \in 1..Len(runs) : \E ok \in BOOLEAN :
          \E kinds \in [1..Len(runs[r].images) -> EntryKinds] : fetchResolves(r, ok, kinds))
          /\ UNCHANGED canvasVars

Spec == Init /\ [][Next]_vars
====
